---- MODULE Spec2Model ----
(***************************************************************************)
(* A model of tinyrpg: the Room entity grid (world.py), the action         *)
(* primitives (action.py) and the plot trigger generator (plot.py).        *)
(*                                                                         *)
(* Python indices are kept 0-based in the model (tile coordinates, stack   *)
(* indices); TLA+ sequences are 1-based, so a read of list[i] is seq[i+1]. *)
(* An empty slot (None) of a cell's stack is written 0; entities are       *)
(* 1..NEnt.  An uncaught exception is recorded in call.fault, together     *)
(* with whatever the call had already mutated before raising.              *)
(***************************************************************************)
EXTENDS Integers, Sequences, FiniteSets, TLC

VARIABLES
    rows,       \* Room._entities of each room: rows[r][y+1][x+1][z+1]
    tile,       \* Entity._tile_x/_tile_y/_tile_z of each entity
    facing,     \* Entity.facing of each entity
    uniques,    \* Room.uniques of each room: the entities indexed by id
    held,       \* entities that are in no grid (in the caller's hands)
    call,       \* the last completed call: operation, arguments, outcome
    pre,        \* the state (Snapshot) as it was when that call began
    ncalls      \* the number of calls made so far

roomVars == <<rows, tile, facing, uniques, held, call, pre, ncalls>>

VARIABLES
    gen,        \* the generator plot(world, state, triggers): its status, the
                \* set `state` and the dict `triggers` it was given
    invoked,    \* how many times each trigger's callback has been called
    plotobj,    \* the Plot instance: whether it exists, and its _plot
    pcall,      \* the last completed call on the generator or the Plot
    pn          \* the number of such calls made so far

plotVars == <<gen, invoked, plotobj, pcall, pn>>

VARIABLES
    act,        \* the action object under test: its class, the number of
                \* sub-actions it was given and the state of its iterator
    alog,       \* per invocation, the sub-action calls it made, in order
    aargs,      \* per invocation, the (world, entity) it was given
    afault      \* the exception raised by the last construction or invocation

actVars == <<act, alog, aargs, afault>>

VARIABLES
    action,     \* Entity.action of each entity: the action bound to it
    portals,    \* Room.portals of each room: a dict, as a set of <<key, value>>
    added,      \* per room, every pair k -> v an add_portals call was given
    lastadd,    \* the room and the argument of the last add_portals call
    world,      \* the World instance: whether one can be called, its _focus
    batch       \* Room.batch of each room: "None" or the World's batch

worldVars == <<action, portals, added, lastadd, world, batch>>

vars == <<roomVars, plotVars, actVars, worldVars>>

-----------------------------------------------------------------------------
(* Bounds of the model. *)

MaxK == 3          \* sub-actions given to an action object
MaxN == 2          \* repetitions given to an ActionCycle
MaxInvokes == 5    \* invocations of the action object in one behaviour
MaxSends == 4      \* calls made on the plot generator and the Plot in one behaviour
MaxCalls == 4      \* calls made on the rooms in one behaviour
MaxAdds == 3       \* pairs handed to add_portals in one behaviour
MaxDepth == 3      \* add_entity is not called on a stack it would grow past this
MaxHint == 2       \* z hints are None or 0..MaxHint

\* The entities of the level data: 1 the hero, 2 a floor tile, 3 a villager.
Ents == {1, 2, 3}
Rooms == {"R1", "R2"}

\* A z argument: {} is None, {z} is the index z.
Hints == {{}} \cup {{z} : z \in 0..MaxHint}

\* The (xstep, ystep) arguments tried by step_entity: unit steps, a step
\* down, and a diagonal step of more than one tile.
Steps == {<<1, 0>>, <<0, 1>>, <<0, -1>>, <<-2, 3>>}

-----------------------------------------------------------------------------
(* Entity attributes that no operation of the model changes. *)

\* Entity.walkable (world.py:60); constructor default False.
Walkable(e) == e = 2

\* Entity.id (world.py:63); "" stands for None.
EntId(e) == CASE e = 1 -> "hero" [] e = 3 -> "npc" [] OTHER -> ""

\* The ids a caller may pass to step_entity; "ghost" is held by no entity.
IdArgs == {"hero", "npc", "ghost"}

\* The plot collaborators a World may be given: the Plot of plot.py, or
\* another object with a start method.
PlotKinds == {"Plot", "other"}

\* Entity.__init__ defaults: tile (0, 0, 0), facing (0, -1).
DefaultTile == [x |-> 0, y |-> 0, z |-> 0]
DefaultFacing == <<0, -1>>

-----------------------------------------------------------------------------
(* Level data handed to the Room constructor: a jagged grid of stacks.     *)
(* R1 has a row of two cells and a row of one cell; one cell's stack is    *)
(* empty ([]), as in tests/test_world.py:83.                               *)

LevelRows ==
    [r \in Rooms |->
        IF r = "R1"
        THEN << << <<2, 1>>, <<>> >>, << <<3, 0>> >> >>
        ELSE << << <<0>> >> >>]

\* Room._iter_entities (world.py:142): the (entity, x, y, z) of every slot
\* that holds an entity.
IterEntities(grid) ==
    UNION {UNION {{<<grid[y][x][z], x - 1, y - 1, z - 1>> :
                        z \in {k \in DOMAIN grid[y][x] : grid[y][x][k] # 0}} :
                  x \in DOMAIN grid[y]} :
           y \in DOMAIN grid}

\* Room.__init__: index by id every entity of the grid whose id tests true.
BuildUniques(grid) ==
    {<<EntId(q[1]), q[1]>> : q \in {p \in IterEntities(grid) : EntId(p[1]) # ""}}

InGrid(grid, e) == \E q \in IterEntities(grid) : q[1] = e

-----------------------------------------------------------------------------
(* Helpers for Python lists. *)

Min(a, b) == IF a <= b THEN a ELSE b

\* list.insert(i, v) for 0 <= i <= len(list).
ListInsert(s, i, v) == SubSeq(s, 1, i) \o <<v>> \o SubSeq(s, i + 1, Len(s))

\* list[i] = v.
ListSet(s, i, v) == [s EXCEPT ![i + 1] = v]

\* The jagged bounds of a grid: 0 <= y < len(rows) and 0 <= x < len(rows[y]).
Addressable(grid, x, y) ==
    /\ 0 <= y /\ y < Len(grid)
    /\ 0 <= x /\ x < Len(grid[y + 1])

Cell(grid, x, y) == grid[y + 1][x + 1]

SetCell(grid, x, y, c) == [grid EXCEPT ![y + 1][x + 1] = c]

\* Every (x, y) of the jagged grid.
Cells(grid) ==
    UNION {{<<x - 1, y - 1>> : x \in DOMAIN grid[y]} : y \in DOMAIN grid}

-----------------------------------------------------------------------------
(* Room *)

\* A walkability test that lets an empty slot block the cell.
is_walkable_none_blocks(grid, x, y) ==
    /\ 0 <= y /\ y < Len(grid)
    /\ 0 <= x /\ x < Len(grid[y + 1])
    /\ \A k \in DOMAIN Cell(grid, x, y) :
            Cell(grid, x, y)[k] # 0 /\ Walkable(Cell(grid, x, y)[k])

\* Room.is_walkable (world.py:173).
is_walkable(grid, x, y) ==
    /\ 0 <= y /\ y < Len(grid)
    /\ 0 <= x /\ x < Len(grid[y + 1])
    /\ \A k \in DOMAIN Cell(grid, x, y) :
            Cell(grid, x, y)[k] = 0 \/ Walkable(Cell(grid, x, y)[k])

\* A resolution that ignores the z argument and always takes the top slot.
AddTargetTop(cell, hint) == Len(cell) - 1

\* add_entity, line 208: the slot the z argument resolves to (depth >= 1).
AddTarget(cell, hint) ==
    IF hint = {} THEN Len(cell) - 1
    ELSE Min(Len(cell) - 1, CHOOSE z \in hint : TRUE)

\* add_entity, lines 210-211: the slot the entity ends in.
AddIndex(cell, hint) ==
    IF cell[AddTarget(cell, hint) + 1] # 0
    THEN AddTarget(cell, hint) + 1
    ELSE AddTarget(cell, hint)

\* A placement that writes the resolved slot whether or not it is occupied.
AddCellOverwrite(cell, e, hint) == ListSet(cell, AddTarget(cell, hint), e)

\* add_entity, lines 210-220: the stack after the placement.  The loop of
\* lines 216-218 re-assigns each shifted entity to the slot list.insert has
\* already moved it to, so it leaves the stack as it is.
AddCell(cell, e, hint) ==
    LET t == AddTarget(cell, hint)
        z == AddIndex(cell, hint)
        grown == IF cell[t + 1] = 0 THEN cell
                 ELSE IF z = Len(cell) THEN Append(cell, 0)
                 ELSE ListInsert(cell, z, 0)
    IN  ListSet(grown, z, e)

\* Entity.update (world.py:86), reached through Room._update_entity: lines
\* 109-111 store the tile coordinates, then line 113 reads the unbound name
\* origin_x and raises NameError.
EntityUpdate(t, e, x, y, z) == [t EXCEPT ![e] = [x |-> x, y |-> y, z |-> z]]

Snapshot ==
    [rows |-> rows, tile |-> tile, facing |-> facing, held |-> held,
     focus |-> world.focus, batch |-> batch, portals |-> portals]

NoCall ==
    [op |-> "init", room |-> "", ent |-> 0, id |-> "", x |-> 0, y |-> 0,
     hint |-> {}, dx |-> 0, dy |-> 0, ret |-> "None", fault |-> "none",
     acts |-> <<>>, afterpop |-> FALSE, restored |-> FALSE]

\* Whether the call add_entity(e, x, y, z) on room r follows directly on the
\* call pop_entity(x, y, z) of r that returned e.
FollowsPop(r, e, x, y, hint) ==
    /\ call.op = "pop_entity" /\ call.ent = e /\ call.room = r
    /\ call.x = x /\ call.y = y /\ call.hint = hint

\* Room.add_entity (world.py:198) of an entity the caller holds, on an
\* addressable cell.  An empty stack has depth 0, line 208 makes z = -1 and
\* the read of line 210 raises IndexError before anything is changed.  The
\* call record notes whether the call follows the pop of the same entity
\* from the same slot, and whether it left the grids as they were before
\* that pop.
add_entity(r, e, x, y, hint) ==
    LET cell == Cell(rows[r], x, y) IN
    /\ e \in held
    /\ Addressable(rows[r], x, y)
    /\ (Len(cell) > 0 => Len(AddCell(cell, e, hint)) <= MaxDepth)
    /\ ncalls < MaxCalls
    /\ ncalls' = ncalls + 1
    /\ pre' = Snapshot
    /\ IF Len(cell) = 0
       THEN /\ call' = [NoCall EXCEPT !.op = "add_entity", !.room = r, !.ent = e,
                            !.x = x, !.y = y, !.hint = hint,
                            !.fault = "IndexError"]
            /\ UNCHANGED <<rows, tile, held>>
       ELSE /\ rows' = [rows EXCEPT ![r] = SetCell(@, x, y, AddCell(cell, e, hint))]
            /\ tile' = EntityUpdate(tile, e, x, y, AddIndex(cell, hint))
            /\ held' = held \ {e}
            /\ call' = [NoCall EXCEPT !.op = "add_entity", !.room = r, !.ent = e,
                            !.x = x, !.y = y, !.hint = hint,
                            !.fault = "NameError",
                            !.afterpop = FollowsPop(r, e, x, y, hint),
                            !.restored =
                                ([rows EXCEPT ![r] = SetCell(@, x, y, AddCell(cell, e, hint))]
                                    = pre.rows)]
    /\ UNCHANGED <<facing, uniques>>

\* Room.pop_entity (world.py:223) of a slot that exists; the returned entity
\* (None for an empty slot) is then in the caller's hands.
pop_entity(r, x, y, z) ==
    LET cell == Cell(rows[r], x, y) IN
    /\ Addressable(rows[r], x, y)
    /\ z \in 0..(Len(cell) - 1)
    /\ ncalls < MaxCalls
    /\ ncalls' = ncalls + 1
    /\ pre' = Snapshot
    /\ rows' = [rows EXCEPT ![r] = SetCell(@, x, y, ListSet(cell, z, 0))]
    /\ held' = held \cup ({cell[z + 1]} \ {0})
    /\ call' = [NoCall EXCEPT !.op = "pop_entity", !.room = r, !.ent = cell[z + 1],
                    !.x = x, !.y = y, !.hint = {z}]
    /\ UNCHANGED <<tile, facing, uniques>>

\* A facing that keeps the step as it is given.
SignRaw(n) == n

\* step_entity, lines 251-252: xstep / abs(xstep) if xstep else 0.
Sign(n) == IF n > 0 THEN 1 ELSE IF n < 0 THEN -1 ELSE 0

\* dict lookup self.uniques[id]: the entity indexed under id, 0 when the key
\* is missing (the caller then raises KeyError).
Lookup(u, id) ==
    IF \E q \in u : q[1] = id THEN (CHOOSE q \in u : q[1] = id)[2] ELSE 0

\* A step that takes the entity out of its slot before the walkability test.
StepPopsFirst(r, e, id, dx, dy) ==
    /\ facing' = [facing EXCEPT ![e] = <<Sign(dx), Sign(dy)>>]
    /\ rows' = [rows EXCEPT ![r] = [y \in DOMAIN @ |-> [x \in DOMAIN @[y] |->
                    [z \in DOMAIN @[y][x] |->
                        IF @[y][x][z] = e THEN 0 ELSE @[y][x][z]]]]]
    /\ call' = [NoCall EXCEPT !.op = "step_entity", !.room = r, !.ent = e,
                    !.id = id, !.dx = dx, !.dy = dy,
                    !.ret = IF is_walkable(rows[r], tile[e].x + dx, tile[e].y + dy)
                            THEN "None" ELSE "False",
                    !.fault = IF is_walkable(rows[r], tile[e].x + dx, tile[e].y + dy)
                              THEN "NameError" ELSE "none"]
    /\ UNCHANGED <<tile, held, uniques>>

\* A step that turns the entity only when the destination is walkable.
StepKeepsFacing(r, e, id, dx, dy) ==
    LET walk == is_walkable(rows[r], tile[e].x + dx, tile[e].y + dy)
    IN  /\ facing' = IF walk THEN [facing EXCEPT ![e] = <<Sign(dx), Sign(dy)>>]
                      ELSE facing
        /\ call' = [NoCall EXCEPT !.op = "step_entity", !.room = r, !.ent = e,
                        !.id = id, !.dx = dx, !.dy = dy,
                        !.ret = IF walk THEN "None" ELSE "False",
                        !.fault = IF walk THEN "NameError" ELSE "none"]
        /\ UNCHANGED <<rows, tile, held, uniques>>

\* Room.step_entity (world.py:229), lines 251-263, for a resolved entity.
\* The facing is assigned first.  A destination that is not walkable returns
\* False.  Otherwise line 261 evaluates pop_entity(x, y, z): x and y are
\* bound nowhere in the method or the module, so the call raises NameError
\* before pop_entity or add_entity runs.
StepResolved(r, e, id, dx, dy) ==
    LET newx == tile[e].x + dx
        newy == tile[e].y + dy
    IN  /\ facing' = [facing EXCEPT ![e] = <<Sign(dx), Sign(dy)>>]
        /\ call' = [NoCall EXCEPT !.op = "step_entity", !.room = r, !.ent = e,
                        !.id = id, !.dx = dx, !.dy = dy,
                        !.ret = IF is_walkable(rows[r], newx, newy)
                                THEN "None" ELSE "False",
                        !.fault = IF is_walkable(rows[r], newx, newy)
                                  THEN "NameError" ELSE "none"]
        /\ UNCHANGED <<rows, tile, held, uniques>>

\* step_entity called with an Entity that stands in room r.
step_entity(r, e, dx, dy) ==
    /\ InGrid(rows[r], e)
    /\ ncalls < MaxCalls
    /\ ncalls' = ncalls + 1
    /\ pre' = Snapshot
    /\ StepResolved(r, e, "", dx, dy)

\* step_entity called with a str: lines 248-249 look the id up in uniques;
\* a missing id raises KeyError before anything is changed.
step_entity_id(r, id, dx, dy) ==
    /\ ncalls < MaxCalls
    /\ ncalls' = ncalls + 1
    /\ pre' = Snapshot
    /\ IF Lookup(uniques[r], id) = 0
       THEN /\ call' = [NoCall EXCEPT !.op = "step_entity", !.room = r, !.id = id,
                            !.dx = dx, !.dy = dy, !.fault = "KeyError"]
            /\ UNCHANGED <<rows, tile, facing, held, uniques>>
       ELSE StepResolved(r, Lookup(uniques[r], id), id, dx, dy)

\* Room.portal_entity (world.py:265): line 279 reads self.focus, an attribute
\* no Room has, and raises AttributeError before the pop of line 281.
portal_entity(r, e, x, y) ==
    /\ InGrid(rows[r], e)
    /\ tile[e].x = x /\ tile[e].y = y
    /\ ncalls < MaxCalls
    /\ ncalls' = ncalls + 1
    /\ pre' = Snapshot
    /\ call' = [NoCall EXCEPT !.op = "portal_entity", !.room = r, !.ent = e,
                    !.x = x, !.y = y, !.fault = "AttributeError"]
    /\ UNCHANGED <<rows, tile, facing, held, uniques>>

-----------------------------------------------------------------------------
(* World *)

\* World.__init__ (world.py:288) with the rooms and the hero as player.
\* Line 294 calls plot.start(self).  With the Plot of plot.py that call
\* raises NameError (plot.py:72) and the instance is dropped.  With any other
\* plot collaborator (the tests pass mocks) the constructor goes on, sets
\* _focus = None (line 313) and raises NameError at line 314, where the name
\* start is bound nowhere; the collaborator was handed the instance at line
\* 294, so its methods can still be called on it.  No room is focused.
World_init(pk) ==
    /\ ncalls < MaxCalls
    /\ ncalls' = ncalls + 1
    /\ ~world.ctor
    /\ pre' = Snapshot
    /\ world' = [ctor |-> TRUE, alloc |-> pk # "Plot", focus |-> "None"]
    /\ call' = [NoCall EXCEPT !.op = "World", !.id = pk, !.fault = "NameError"]
    /\ UNCHANGED <<rows, tile, facing, held, uniques>>

-----------------------------------------------------------------------------
(* Plot: the generator plot() of plot.py and the class Plot around it.     *)
(* plot.py is Python 2 code (iteritems, generator.next), so                *)
(* triggers.items() at line 17 is a list: a snapshot of the dict taken     *)
(* when the loop starts, in the dict's arbitrary order.                    *)

Flags == {"a", "b", "c"}

\* The trigger entries of the level data.  Each has its own callback.
\*   T1  ("a","b") -> (cb1, {T2, T5})     T2  ("c",) -> (cb2, {})
\*   T3  ("a",)    -> (cb3, {})           T4  ("b",) -> cb4
\*   T5  ("a",)    -> (cb5, {})          T6  ("c",) -> (cb6, {})
\* T4 maps its key to a bare callable, which lines 20-22 accept.  cb6 sends
\* an update to the same generator: lambda world: plt.send(("b",)).
Trigs == {"T1", "T2", "T3", "T4", "T5", "T6"}

\* The dict key of an entry: its required flag set.
Req(t) ==
    CASE t = "T1" -> {"a", "b"} [] t = "T2" -> {"c"} [] t = "T4" -> {"b"}
      [] t = "T6" -> {"c"} [] OTHER -> {"a"}

\* Line 18: whether the dict value is a (func, nextbranch) tuple.
IsTuple(t) == t # "T4"

\* The nextbranch dict of a tuple entry.
Nested(t) == IF t = "T1" THEN {"T2", "T5"} ELSE {}

\* Whether the callback of an entry sends an update to the generator that
\* is calling it, and the flags it sends.
Reenters(t) == t = "T6"
ReFlags == {"b"}

\* The top-level dicts a caller may hand to plot().
Forests == SUBSET {"T1", "T3", "T4", "T6"}

\* dict.update(other): an entry of other replaces the entry with its key.
DictUpdate(d, other) ==
    {t \in d : \A n \in other : Req(n) # Req(t)} \cup other

\* del d[key].
DictDel(d, key) == {t \in d : Req(t) # key}

HasKey(d, key) == \E t \in d : Req(t) = key

\* The orders in which items() may list the entries of a dict.
Orders(d) ==
    {o \in [1..Cardinality(d) -> d] : \A i, j \in DOMAIN o : o[i] = o[j] => i = j}

\* plot(), lines 17-27: the loop over the snapshot `order`, from the entry
\* at index i on.  An entry whose key is a subset of the state has its
\* callback called (line 25), is deleted by key (line 26) and has its
\* nextbranch merged (line 27); for a bare callable nextbranch is None and
\* dict.update(None) raises TypeError.  A callback that sends to the
\* generator while the generator is running it gets ValueError (generator
\* already executing), which leaves line 25 before the entry is deleted.
RECURSIVE TriggerLoop(_, _, _, _, _)
TriggerLoop(order, i, state, d, fired) ==
    IF i > Len(order)
    THEN [triggers |-> d, fired |-> fired, fault |-> "none"]
    ELSE IF ~(Req(order[i]) \subseteq state)
    THEN TriggerLoop(order, i + 1, state, d, fired)
    ELSE IF Reenters(order[i])
    THEN [triggers |-> d, fired |-> Append(fired, order[i]), fault |-> "ValueError"]
    ELSE IF ~HasKey(d, Req(order[i]))
    THEN [triggers |-> d, fired |-> Append(fired, order[i]), fault |-> "KeyError"]
    ELSE IF ~IsTuple(order[i])
    THEN [triggers |-> DictDel(d, Req(order[i])),
          fired |-> Append(fired, order[i]), fault |-> "TypeError"]
    ELSE TriggerLoop(order, i + 1, state,
                     DictUpdate(DictDel(d, Req(order[i])), Nested(order[i])),
                     Append(fired, order[i]))

\* A value passed to generator.send: None, one flag, or a tuple of flags
\* (what Plot.update builds from its arguments, line 75).
SendValues ==
    {[kind |-> "None", flags |-> {}]}
        \cup {[kind |-> "single", flags |-> {f}] : f \in Flags}
        \cup {[kind |-> "tuple", flags |-> fs] : fs \in SUBSET Flags}

NoPCall ==
    [op |-> "init", val |-> [kind |-> "None", flags |-> {}], fault |-> "none",
     fired |-> <<>>, state0 |-> {}, triggers0 |-> {}, status0 |-> "created",
     merged0 |-> {}]

\* The nested entries merged into the dict by the call that just ended.
MergedBy(fired) == UNION {Nested(fired[i]) : i \in DOMAIN fired}

\* An update call: a value other than None sent to a started generator (as
\* Plot.update sends it), or a call of Plot.update.
IsUpdate(c) ==
    \/ c.op = "send" /\ c.val.kind # "None" /\ c.status0 # "created"
    \/ c.op = "Plot.update"

\* The nested entries merged by the most recent update call.
LastMerged == IF IsUpdate(pcall) THEN MergedBy(pcall.fired) ELSE pcall.merged0

Bump(count, fired) ==
    [t \in Trigs |-> count[t] + Cardinality({i \in DOMAIN fired : fired[i] = t})]

\* One resumption of the generator with the value v, lines 4-27.  A fresh
\* generator runs to its first yield; a non-None value sent to it raises
\* TypeError (Python's rule for a just-started generator).  `while triggers`
\* (line 4) ends the generator when the dict is empty, and the caller's
\* next/send then raises StopIteration; so does any call on a finished one.
Resume(op, v, order) ==
    LET base == [NoPCall EXCEPT !.op = op, !.val = v, !.state0 = gen.state,
                     !.triggers0 = gen.triggers, !.status0 = gen.status,
                     !.merged0 = LastMerged]
        state1 == gen.state \cup v.flags
        loop == TriggerLoop(order, 1, state1, gen.triggers, <<>>)
    IN
    CASE gen.status = "finished" ->
            /\ pcall' = [base EXCEPT !.fault = "StopIteration"]
            /\ UNCHANGED <<gen, invoked>>
      [] gen.status = "created" /\ v.kind # "None" ->
            /\ pcall' = [base EXCEPT !.fault = "TypeError"]
            /\ UNCHANGED <<gen, invoked>>
      [] v.kind = "None" ->
            /\ gen' = [gen EXCEPT !.status = IF gen.triggers = {} THEN "finished"
                                             ELSE "suspended"]
            /\ pcall' = [base EXCEPT !.fault = IF gen.triggers = {}
                                               THEN "StopIteration" ELSE "none"]
            /\ UNCHANGED invoked
      [] OTHER ->
            /\ gen' = [status |-> IF loop.fault # "none" \/ loop.triggers = {}
                                  THEN "finished" ELSE "suspended",
                       state |-> state1, triggers |-> loop.triggers]
            /\ invoked' = Bump(invoked, loop.fired)
            /\ pcall' = [base EXCEPT !.fired = loop.fired,
                            !.fault = IF loop.fault # "none" THEN loop.fault
                                      ELSE IF loop.triggers = {} THEN "StopIteration"
                                      ELSE "none"]

\* generator.next() on the generator made by plot(world, state, triggers).
gen_next ==
    /\ pn < MaxSends
    /\ pn' = pn + 1
    /\ \E o \in Orders(gen.triggers) : Resume("next", [kind |-> "None", flags |-> {}], o)
    /\ UNCHANGED plotobj

\* generator.send(v).
gen_send(v) ==
    /\ pn < MaxSends
    /\ pn' = pn + 1
    /\ \E o \in Orders(gen.triggers) : Resume("send", v, o)
    /\ UNCHANGED plotobj

\* Plot.__init__ (plot.py:33): _format_triggers (line 66) builds a dict from
\* the entries; for the first entry listed it evaluates v[0], which raises
\* TypeError for a bare callable, and then reads the unbound global
\* _format_triggers, which raises NameError.  Only Plot(state, {}) returns
\* an instance.
Plot_new(forest) ==
    /\ pn < MaxSends
    /\ pn' = pn + 1
    /\ ~plotobj.made
    /\ plotobj' = [made |-> forest = {}, state |-> {}, triggers |-> {},
                   plot |-> "None"]
    /\ \E o \in Orders(forest) :
            pcall' = [NoPCall EXCEPT !.op = "Plot", !.triggers0 = forest,
                        !.fault = IF forest = {} THEN "none"
                                  ELSE IF IsTuple(o[1]) THEN "NameError"
                                  ELSE "TypeError"]
    /\ UNCHANGED <<gen, invoked>>

\* Plot.start (plot.py:71): line 72 reads the unbound names state and
\* triggers and raises NameError before _plot is assigned.
Plot_start ==
    /\ pn < MaxSends
    /\ pn' = pn + 1
    /\ plotobj.made
    /\ pcall' = [NoPCall EXCEPT !.op = "Plot.start", !.fault = "NameError"]
    /\ UNCHANGED <<gen, invoked, plotobj>>

\* Plot.update (plot.py:75): self._plot.send(updates) with the arguments as
\* a tuple.  _plot is still None, so the call raises AttributeError.
Plot_update(fs) ==
    /\ pn < MaxSends
    /\ pn' = pn + 1
    /\ plotobj.made
    /\ plotobj.plot = "None"
    /\ pcall' = [NoPCall EXCEPT !.op = "Plot.update",
                    !.val = [kind |-> "tuple", flags |-> fs],
                    !.fault = "AttributeError"]
    /\ UNCHANGED <<gen, invoked, plotobj>>

\* Plot.update(C) with one argument that is a collection C of flags: the
\* value to send is the 1-tuple (C,).  _plot is None, so line 81 raises
\* AttributeError before anything is sent.
Plot_update_collection(c) ==
    /\ pn < MaxSends
    /\ pn' = pn + 1
    /\ plotobj.made
    /\ plotobj.plot = "None"
    /\ pcall' = [NoPCall EXCEPT !.op = "Plot.update",
                    !.val = [kind |-> "wrapped", flags |-> c],
                    !.fault = "AttributeError"]
    /\ UNCHANGED <<gen, invoked, plotobj>>

\* UpdatePlot(*updates).__call__(world, entity) (action.py:107-111), world.plot
\* being the Plot instance: world.plot.update(*self.updates), which raises
\* as Plot.update does.
UpdatePlot_call(fs) ==
    /\ pn < MaxSends
    /\ pn' = pn + 1
    /\ plotobj.made
    /\ plotobj.plot = "None"
    /\ pcall' = [NoPCall EXCEPT !.op = "UpdatePlot",
                    !.val = [kind |-> "tuple", flags |-> fs],
                    !.fault = "AttributeError"]
    /\ UNCHANGED <<gen, invoked, plotobj>>

\* A generator made by plot(world, set(), forest), not yet started, and no
\* Plot instance.
InitPlot ==
    /\ gen \in {[status |-> "created", state |-> {}, triggers |-> f] : f \in Forests}
    /\ invoked = [t \in Trigs |-> 0]
    /\ plotobj = [made |-> FALSE, state |-> {}, triggers |-> {}, plot |-> "None"]
    /\ pcall = NoPCall
    /\ pn = 0

\* The plot while only the rooms are exercised.
IdlePlot ==
    /\ gen = [status |-> "created", state |-> {}, triggers |-> {}]
    /\ invoked = [t \in Trigs |-> 0]
    /\ plotobj = [made |-> FALSE, state |-> {}, triggers |-> {}, plot |-> "None"]
    /\ pcall = NoPCall
    /\ pn = 0

-----------------------------------------------------------------------------

\* The state after the Rooms are constructed from the level data.  Entities
\* of the level data carry the tile coordinates of their slot; the others
\* are constructed with the defaults and held by the caller.
InitRoom ==
    /\ rows = LevelRows
    /\ tile = [e \in Ents |->
                 IF \E r \in Rooms : InGrid(LevelRows[r], e)
                 THEN LET q == CHOOSE q \in UNION {IterEntities(LevelRows[r]) : r \in Rooms} :
                                   q[1] = e
                      IN  [x |-> q[2], y |-> q[3], z |-> q[4]]
                 ELSE DefaultTile]
    /\ facing = [e \in Ents |-> DefaultFacing]
    /\ uniques = [r \in Rooms |-> BuildUniques(LevelRows[r])]
    /\ held = {e \in Ents : \A r \in Rooms : ~InGrid(LevelRows[r], e)}
    /\ call = NoCall
    /\ ncalls = 0
    /\ pre = [rows |-> LevelRows, tile |-> tile, facing |-> facing, held |-> held,
              focus |-> "None", batch |-> [r \in Rooms |-> "None"],
              portals |-> [r \in Rooms |-> {}]]

\* The rooms while only the plot is exercised.
IdleRoom ==
    /\ rows = LevelRows
    /\ tile = [e \in Ents |-> DefaultTile]
    /\ facing = [e \in Ents |-> DefaultFacing]
    /\ uniques = [r \in Rooms |-> BuildUniques(LevelRows[r])]
    /\ held = {}
    /\ call = NoCall
    /\ ncalls = 0
    /\ pre = [rows |-> LevelRows, tile |-> tile, facing |-> facing, held |-> held,
              focus |-> "None", batch |-> [r \in Rooms |-> "None"],
              portals |-> [r \in Rooms |-> {}]]

-----------------------------------------------------------------------------
(* Actions: the iterating primitives of action.py.  The sub-actions are    *)
(* numbered 1..k in the order given to the constructor; each is a leaf     *)
(* that only records the (world, entity) it is called with.                *)

\* The (world, entity) pairs an invocation is given.
ActArgs == {[world |-> "w1", entity |-> 1], [world |-> "w2", entity |-> 3]}

NoAction == [kind |-> "none", k |-> 0, cur |-> 0]

\* An iterator that starts over after the last sub-action.
IterNextWraps(k, cur) == [sub |-> cur + 1, cur |-> (cur + 1) % k]

\* ActionIter (action.py:39-43): next() on
\* chain(actions[:-1], repeat(actions[-1])).  cur counts the items taken from
\* actions[:-1]; once they are used up repeat() yields the last one forever.
IterNext(k, cur) ==
    IF cur < k - 1 THEN [sub |-> cur + 1, cur |-> cur + 1]
    ELSE [sub |-> k, cur |-> cur]

\* An iterator that rests on the last sub-action once it has reached it.
LoopNextSticks(k, cur) ==
    IF cur < k - 1 THEN [sub |-> cur + 1, cur |-> cur + 1]
    ELSE [sub |-> k, cur |-> cur]

\* ActionLoop (action.py:51-52): next() on cycle(actions), k >= 1.  cur is
\* the 0-based position in the cycle.
LoopNext(k, cur) == [sub |-> cur + 1, cur |-> (cur + 1) % k]

\* ActionIter(*actions) with k sub-actions: actions[-1] of an empty tuple
\* raises IndexError and no object is made.
ActionIter_new(k) ==
    /\ act.kind = "none"
    /\ act' = IF k = 0 THEN NoAction ELSE [kind |-> "Iter", k |-> k, cur |-> 0]
    /\ afault' = IF k = 0 THEN "IndexError" ELSE "none"
    /\ UNCHANGED <<alog, aargs>>

\* ActionLoop(*actions) with k sub-actions: cycle(()) is accepted.
ActionLoop_new(k) ==
    /\ act.kind = "none"
    /\ act' = [kind |-> "Loop", k |-> k, cur |-> 0]
    /\ afault' = "none"
    /\ UNCHANGED <<alog, aargs>>

\* ActionIter.__call__ (action.py:42), inherited by ActionLoop:
\* next(self._actions)(world, entity).  next() on cycle(()) raises
\* StopIteration and nothing is called.
Action_call(a) ==
    /\ act.kind \in {"Iter", "Loop"}
    /\ Len(aargs) < MaxInvokes
    /\ aargs' = Append(aargs, a)
    /\ IF act.k = 0
       THEN /\ alog' = Append(alog, <<>>)
            /\ afault' = "StopIteration"
            /\ UNCHANGED act
       ELSE LET n == IF act.kind = "Iter" THEN IterNext(act.k, act.cur)
                     ELSE LoopNext(act.k, act.cur)
            IN  /\ alog' = Append(alog, <<[sub |-> n.sub, world |-> a.world,
                                           entity |-> a.entity]>>)
                /\ act' = [act EXCEPT !.cur = n.cur]
                /\ afault' = "none"

\* A cycle that makes one pass more than it was asked for.
CycleNextOneMore(n, k, cur) ==
    IF cur < (n + 1) * k THEN [sub |-> (cur % k) + 1, cur |-> cur + 1]
    ELSE [sub |-> k, cur |-> cur]

\* ActionCycle.__call__ (action.py:72-79): next() on chain(*repeat(actions, n));
\* cur counts the items taken from the chain.  When the chain is used up the
\* StopIteration is caught, the iterator becomes repeat(actions[-1]) and the
\* final sub-action is taken from it; the finally clause calls what was taken.
CycleNext(n, k, cur) ==
    IF cur < n * k THEN [sub |-> (cur % k) + 1, cur |-> cur + 1]
    ELSE [sub |-> k, cur |-> cur]

\* ActionCycle(n, *actions) with k sub-actions (action.py:60-70): actions[-1]
\* of an empty tuple raises IndexError and no object is made.
ActionCycle_new(n, k) ==
    /\ act.kind = "none"
    /\ act' = IF k = 0 THEN NoAction
              ELSE [kind |-> "Cycle", k |-> k, cur |-> 0, n |-> n]
    /\ afault' = IF k = 0 THEN "IndexError" ELSE "none"
    /\ UNCHANGED <<alog, aargs>>

\* ActionCycle.__call__(world, entity).
ActionCycle_call(a) ==
    /\ act.kind = "Cycle"
    /\ Len(aargs) < MaxInvokes
    /\ aargs' = Append(aargs, a)
    /\ LET nx == CycleNext(act.n, act.k, act.cur)
       IN  /\ alog' = Append(alog, <<[sub |-> nx.sub, world |-> a.world,
                                      entity |-> a.entity]>>)
           /\ act' = [act EXCEPT !.cur = nx.cur]
    /\ afault' = "none"

\* A sequence that stops after its first sub-action.
SeqCallsFirstOnly(k, a) ==
    [i \in 1..(IF k = 0 THEN 0 ELSE 1) |->
        [sub |-> i, world |-> a.world, entity |-> a.entity]]

\* ActionSequence.__call__ (action.py:88-90): the calls one invocation makes,
\* every sub-action of the tuple in order.
SeqCalls(k, a) ==
    [i \in 1..k |-> [sub |-> i, world |-> a.world, entity |-> a.entity]]

\* ActionSequence(*actions) (action.py:85-86): any tuple is kept, also ().
ActionSequence_new(k) ==
    /\ act.kind = "none"
    /\ act' = [kind |-> "Sequence", k |-> k, cur |-> 0]
    /\ afault' = "none"
    /\ UNCHANGED <<alog, aargs>>

\* ActionSequence.__call__(world, entity).
ActionSequence_call(a) ==
    /\ act.kind = "Sequence"
    /\ Len(aargs) < MaxInvokes
    /\ aargs' = Append(aargs, a)
    /\ alog' = Append(alog, SeqCalls(act.k, a))
    /\ afault' = "none"
    /\ UNCHANGED act

\* The actions a ResetAction may be given: a leaf, or another ResetAction
\* that wraps a second leaf.
ResetTargets == {"leaf1", "reset2"}

IsReset(t) == t = "reset2"

\* The action a wrapped ResetAction was given.
Wrapped(t) == "leaf2"

\* A reset that calls the new action without binding it to the entity.
ResetRunNoBind(t, a, bound) ==
    [action |-> bound,
     calls |-> <<[sub |-> t, world |-> a.world, entity |-> a.entity,
                  seen |-> bound[a.entity]]>>]

\* ResetAction.__call__ (action.py:99-101) of a ResetAction given t, with the
\* bindings `bound`: line 100 binds t to the entity, line 101 calls t with the
\* same (world, entity).  A leaf records the binding it sees; a ResetAction
\* runs these two lines in its turn.
RECURSIVE ResetRun(_, _, _)
ResetRun(t, a, bound) ==
    LET b1 == [bound EXCEPT ![a.entity] = t]
        c == <<[sub |-> t, world |-> a.world, entity |-> a.entity,
                seen |-> b1[a.entity]]>>
    IN  IF IsReset(t)
        THEN LET r == ResetRun(Wrapped(t), a, b1)
             IN  [action |-> r.action, calls |-> c \o r.calls]
        ELSE [action |-> b1, calls |-> c]

\* ResetAction(action) (action.py:96-97).
ResetAction_new(t) ==
    /\ act.kind = "none"
    /\ act' = [kind |-> "Reset", k |-> 1, cur |-> 0, target |-> t]
    /\ afault' = "none"
    /\ UNCHANGED <<alog, aargs, action, portals, added, lastadd, world, batch>>

\* ResetAction.__call__(world, entity).
ResetAction_call(a) ==
    /\ act.kind = "Reset"
    /\ Len(aargs) < MaxInvokes
    /\ aargs' = Append(aargs, a)
    /\ LET r == ResetRun(act.target, a, action)
       IN  /\ action' = r.action
           /\ alog' = Append(alog, r.calls)
    /\ afault' = "none"
    /\ UNCHANGED <<act, portals, added, lastadd, world, batch>>

InitAct ==
    /\ act = NoAction
    /\ alog = <<>>
    /\ aargs = <<>>
    /\ afault = "none"

-----------------------------------------------------------------------------
(* Specifications.  Each exercises one part and leaves the others idle. *)

\* No World instance: nothing holds a World that can be called.
NoWorld == [ctor |-> FALSE, alloc |-> FALSE, focus |-> "None"]

\* The entities as constructed: Entity.__init__ default action=None.
IdleWorld ==
    /\ action = [e \in Ents |-> "None"]
    /\ portals = [r \in Rooms |-> {}]
    /\ added = [r \in Rooms |-> {}]
    /\ lastadd = [room |-> "", arg |-> <<>>]
    /\ world = NoWorld
    /\ batch = [r \in Rooms |-> "None"]

-----------------------------------------------------------------------------
(* Room.portals.  Destination room names and (x, y) coordinates are keys   *)
(* of the same dict; a room name d is written <<d, -1, -1>> and a          *)
(* coordinate (x, y) is written <<"", x, y>>.                              *)

DestKey(d) == <<d, -1, -1>>
CoordKey(x, y) == <<"", x, y>>

\* The mappings a caller hands to add_portals: destination room -> (x, y),
\* over one or two destinations (world.py:188-189).
PortalArgs ==
    UNION {[D -> {CoordKey(0, 0), CoordKey(1, 0)}] :
                D \in {{DestKey(r) : r \in S} : S \in (SUBSET Rooms) \ {{}}}}

\* d[k] = v.
PSet(d, k, v) == {q \in d : q[1] # k} \cup {<<k, v>>}

\* d[k], with <<>> standing for a missing key.
PGet(d, k) == IF \E q \in d : q[1] = k THEN (CHOOSE q \in d : q[1] = k)[2] ELSE <<>>

\* add_portals (world.py:191-192): dict.update(portals), then
\* dict.update((v, k) for k, v in portals.items()), the items taken in the
\* order `order`, from item i on.
RECURSIVE PortalsUpdate(_, _, _, _)
PortalsUpdate(d, arg, order, i) ==
    IF i = 0
    THEN PortalsUpdate({q \in d : q[1] \notin DOMAIN arg}
                            \cup {<<k, arg[k]>> : k \in DOMAIN arg},
                       arg, order, 1)
    ELSE IF i > Len(order) THEN d
    ELSE PortalsUpdate(PSet(d, arg[order[i]], order[i]), arg, order, i + 1)

\* The orders in which items() may list the keys of a mapping.
KeyOrders(arg) ==
    {o \in [1..Cardinality(DOMAIN arg) -> DOMAIN arg] :
        \A i, j \in DOMAIN o : o[i] = o[j] => i = j}

\* Room.add_portals(portals) (world.py:185-192).
add_portals(r, arg) ==
    /\ Cardinality(added[r]) + Cardinality(DOMAIN arg) <= MaxAdds
    /\ \E o \in KeyOrders(arg) :
            portals' = [portals EXCEPT ![r] = PortalsUpdate(@, arg, o, 0)]
    /\ added' = [added EXCEPT ![r] = @ \cup {<<k, arg[k]>> : k \in DOMAIN arg}]
    /\ lastadd' = [room |-> r, arg |-> arg]
    /\ UNCHANGED <<action, world, batch>>

-----------------------------------------------------------------------------
(* World.  Its base class GameMode (tinyrpg/base.py) supplies self.batch;  *)
(* World itself defines no step_entity and no portal_entity, which         *)
(* step_player and portal_player call on self: these are taken to hand the *)
(* call to the focused Room.                                               *)

\* World.player: the hero.
Player == 1

\* The room arguments tried by set_focus: the default '', the registered
\* rooms, and a name that is not registered.
FocusArgs == {"", "R9"} \cup Rooms

\* The portals of the level data: R1 and R2 lead to each other, each from its
\* coordinate (0, 0).
LevelPortals ==
    [r \in Rooms |->
        LET d == DestKey(IF r = "R1" THEN "R2" ELSE "R1")
        IN  PortalsUpdate({}, [k \in {d} |-> CoordKey(0, 0)], <<d>>, 0)]

\* The actions of the level data: the villager carries one.
LevelActions == [e \in Ents |-> IF e = 3 THEN "leaf1" ELSE "None"]

\* The rooms' portals and the entities' actions as the level data gives
\* them, and no World yet.
InitWorld ==
    /\ action = LevelActions
    /\ portals = LevelPortals
    /\ added = [r \in Rooms |-> {}]
    /\ lastadd = [room |-> "", arg |-> <<>>]
    /\ world = NoWorld
    /\ batch = [r \in Rooms |-> "None"]

\* Room.update (world.py:168-171): _update_entity for every entity in the
\* order of _iter_entities.  The first one has its tile coordinates set to
\* its slot and then raises NameError (Entity.update, line 113); a room
\* without entities is updated without a fault.
RoomUpdate(grid, t) ==
    IF IterEntities(grid) = {} THEN [tile |-> t, fault |-> "none"]
    ELSE LET first == CHOOSE q \in IterEntities(grid) :
                        \A o \in IterEntities(grid) :
                            \/ q[3] < o[3]
                            \/ q[3] = o[3] /\ q[2] < o[2]
                            \/ q[3] = o[3] /\ q[2] = o[2] /\ q[4] <= o[4]
         IN  [tile |-> EntityUpdate(t, first[1], first[2], first[3], first[4]),
              fault |-> "NameError"]

\* World.set_focus (world.py:324-339): what the call leaves, and its fault.
SetFocusResult(arg) ==
    LET old == world.focus
        b1 == IF old \in Rooms THEN [batch EXCEPT ![old] = "None"] ELSE batch
        u1 == IF old \in Rooms THEN RoomUpdate(rows[old], tile)
              ELSE [tile |-> tile, fault |-> "none"]
        target == IF arg # "" THEN arg ELSE old
    IN  IF u1.fault # "none"
        THEN [batch |-> b1, tile |-> u1.tile, focus |-> old, fault |-> u1.fault]
        ELSE IF arg # "" /\ arg \notin Rooms
        THEN [batch |-> b1, tile |-> u1.tile, focus |-> old, fault |-> "KeyError"]
        ELSE IF target = "None"
        THEN [batch |-> b1, tile |-> u1.tile, focus |-> old,
              fault |-> "AttributeError"]
        ELSE LET b2 == [b1 EXCEPT ![target] = "batch"]
                 u2 == RoomUpdate(rows[target], u1.tile)
             IN  [batch |-> b2, tile |-> u2.tile,
                  focus |-> IF u2.fault = "none" THEN target ELSE old,
                  fault |-> u2.fault]

\* World.set_focus(room) on the instance.
set_focus(arg) ==
    /\ world.alloc
    /\ ncalls < MaxCalls
    /\ ncalls' = ncalls + 1
    /\ pre' = Snapshot
    /\ LET res == SetFocusResult(arg)
       IN  /\ batch' = res.batch
           /\ tile' = res.tile
           /\ world' = [world EXCEPT !.focus = res.focus]
           /\ call' = [NoCall EXCEPT !.op = "set_focus", !.id = arg,
                           !.fault = res.fault]
    /\ UNCHANGED <<rows, facing, held, uniques, action, portals, added, lastadd>>

\* self.step_entity(entity, xstep, ystep) of a World: the focused Room's
\* step_entity.  _focus = None has no such attribute; a Room sets the
\* facing, returns False for a destination that is not walkable and raises
\* NameError otherwise (world.py:251-261).
WorldStepEntity(e, dx, dy) ==
    IF world.focus \notin Rooms
    THEN [facing |-> facing, ret |-> "None", fault |-> "AttributeError"]
    ELSE LET walk == is_walkable(rows[world.focus], tile[e].x + dx, tile[e].y + dy)
         IN  [facing |-> [facing EXCEPT ![e] = <<Sign(dx), Sign(dy)>>],
              ret |-> IF walk THEN "None" ELSE "False",
              fault |-> IF walk THEN "NameError" ELSE "none"]

\* World.step_player (world.py:341-361): line 355 steps the player and
\* returns when the step reports failure.  No step reports success, so the
\* portal test of lines 358-361 is never reached.
step_player(dx, dy) ==
    /\ world.alloc
    /\ ncalls < MaxCalls
    /\ ncalls' = ncalls + 1
    /\ pre' = Snapshot
    /\ LET res == WorldStepEntity(Player, dx, dy)
       IN  /\ facing' = res.facing
           /\ call' = [NoCall EXCEPT !.op = "step_player", !.ent = Player,
                           !.room = world.focus, !.dx = dx, !.dy = dy,
                           !.fault = res.fault]
    /\ UNCHANGED <<rows, tile, held, uniques, worldVars>>

\* self.portal_entity(entity, x, y) of a World: the focused Room's
\* portal_entity.  _focus = None has no such attribute, and a Room raises
\* AttributeError at world.py:279.
WorldPortalEntity(e, x, y) == [ret |-> "None", fault |-> "AttributeError"]

\* World.portal_player (world.py:363-371): line 367 raises, so the lookup of
\* the destination and set_focus(dest) are never reached.
portal_player(x, y) ==
    /\ world.alloc
    /\ ncalls < MaxCalls
    /\ ncalls' = ncalls + 1
    /\ pre' = Snapshot
    /\ call' = [NoCall EXCEPT !.op = "portal_player", !.ent = Player,
                    !.room = world.focus, !.x = x, !.y = y,
                    !.fault = WorldPortalEntity(Player, x, y).fault]
    /\ UNCHANGED <<rows, tile, facing, held, uniques, worldVars>>

\* World.interact (world.py:373-382): line 380 subscripts self.focus; neither
\* None nor a Room (which defines no __getitem__) can be subscripted, so the
\* call raises TypeError before any entity is looked at.
interact ==
    /\ world.alloc
    /\ ncalls < MaxCalls
    /\ ncalls' = ncalls + 1
    /\ pre' = Snapshot
    /\ call' = [NoCall EXCEPT !.op = "interact", !.ent = Player,
                    !.room = world.focus,
                    !.x = tile[Player].x + facing[Player][1],
                    !.y = tile[Player].y + facing[Player][2],
                    !.acts = <<>>, !.fault = "TypeError"]
    /\ UNCHANGED <<rows, tile, facing, held, uniques, worldVars>>

-----------------------------------------------------------------------------

\* The rooms alone.
Init == InitRoom /\ IdlePlot /\ InitAct /\ IdleWorld

Next ==
    \/ \E r \in Rooms, e \in Ents, h \in Hints :
            \E c \in Cells(rows[r]) :
                add_entity(r, e, c[1], c[2], h) /\ UNCHANGED <<plotVars, actVars, worldVars>>
    \/ \E r \in Rooms, z \in 0..(MaxDepth - 1) :
            \E c \in Cells(rows[r]) :
                pop_entity(r, c[1], c[2], z) /\ UNCHANGED <<plotVars, actVars, worldVars>>
    \/ \E r \in Rooms, e \in Ents, d \in Steps :
            step_entity(r, e, d[1], d[2]) /\ UNCHANGED <<plotVars, actVars, worldVars>>
    \/ \E r \in Rooms, id \in IdArgs, d \in Steps :
            step_entity_id(r, id, d[1], d[2]) /\ UNCHANGED <<plotVars, actVars, worldVars>>
    \/ \E r \in Rooms, e \in Ents :
            portal_entity(r, e, tile[e].x, tile[e].y) /\ UNCHANGED <<plotVars, actVars, worldVars>>
    \/ \E pk \in PlotKinds :
            /\ World_init(pk)
            /\ UNCHANGED <<plotVars, actVars, action, portals, added, lastadd, batch>>

Spec == Init /\ [][Next]_vars

\* The plot alone.
InitP == InitPlot /\ IdleRoom /\ InitAct /\ IdleWorld

NextP ==
    \/ gen_next /\ UNCHANGED <<roomVars, actVars, worldVars>>
    \/ \E v \in SendValues : gen_send(v) /\ UNCHANGED <<roomVars, actVars, worldVars>>
    \/ \E f \in Forests : Plot_new(f) /\ UNCHANGED <<roomVars, actVars, worldVars>>
    \/ Plot_start /\ UNCHANGED <<roomVars, actVars, worldVars>>
    \/ \E fs \in SUBSET Flags : Plot_update(fs) /\ UNCHANGED <<roomVars, actVars, worldVars>>
    \/ \E c \in SUBSET Flags :
            Plot_update_collection(c) /\ UNCHANGED <<roomVars, actVars, worldVars>>
    \/ \E fs \in SUBSET Flags :
            UpdatePlot_call(fs) /\ UNCHANGED <<roomVars, actVars, worldVars>>

SpecPlot == InitP /\ [][NextP]_vars

\* The action primitives alone.
InitA == InitAct /\ IdleRoom /\ IdlePlot /\ IdleWorld

NextA ==
    \/ \E k \in 0..MaxK : ActionIter_new(k) /\ UNCHANGED <<roomVars, plotVars, worldVars>>
    \/ \E k \in 0..MaxK : ActionLoop_new(k) /\ UNCHANGED <<roomVars, plotVars, worldVars>>
    \/ \E a \in ActArgs : Action_call(a) /\ UNCHANGED <<roomVars, plotVars, worldVars>>
    \/ \E n \in 0..MaxN, k \in 0..MaxK :
            ActionCycle_new(n, k) /\ UNCHANGED <<roomVars, plotVars, worldVars>>
    \/ \E a \in ActArgs : ActionCycle_call(a) /\ UNCHANGED <<roomVars, plotVars, worldVars>>
    \/ \E k \in 0..MaxK : ActionSequence_new(k) /\ UNCHANGED <<roomVars, plotVars, worldVars>>
    \/ \E a \in ActArgs : ActionSequence_call(a) /\ UNCHANGED <<roomVars, plotVars, worldVars>>
    \/ \E t \in ResetTargets : ResetAction_new(t) /\ UNCHANGED <<roomVars, plotVars>>
    \/ \E a \in ActArgs : ResetAction_call(a) /\ UNCHANGED <<roomVars, plotVars>>

SpecAction == InitA /\ [][NextA]_vars

\* The portal index alone: rooms constructed with portals = {} (as in
\* tests/test_world.py:160), then add_portals calls.
InitPortals == IdleWorld /\ IdleRoom /\ IdlePlot /\ InitAct

NextPortals ==
    \E r \in Rooms, arg \in PortalArgs :
        add_portals(r, arg) /\ UNCHANGED <<roomVars, plotVars, actVars>>

SpecPortals == InitPortals /\ [][NextPortals]_vars

\* The World over the rooms of the level data.
InitW == InitRoom /\ InitWorld /\ IdlePlot /\ InitAct

NextW ==
    \/ \E pk \in PlotKinds :
            /\ World_init(pk)
            /\ UNCHANGED <<plotVars, actVars, action, portals, added, lastadd, batch>>
    \/ \E arg \in FocusArgs : set_focus(arg) /\ UNCHANGED <<plotVars, actVars>>
    \/ \E d \in Steps : step_player(d[1], d[2]) /\ UNCHANGED <<plotVars, actVars>>
    \/ portal_player(tile[Player].x, tile[Player].y) /\ UNCHANGED <<plotVars, actVars>>
    \/ interact /\ UNCHANGED <<plotVars, actVars>>
    \/ \E r \in Rooms, e \in Ents :
            portal_entity(r, e, tile[e].x, tile[e].y)
                /\ UNCHANGED <<plotVars, actVars, worldVars>>
    \/ \E r \in Rooms, e \in Ents, h \in Hints :
            \E c \in Cells(rows[r]) :
                add_entity(r, e, c[1], c[2], h) /\ UNCHANGED <<plotVars, actVars, worldVars>>
    \/ \E r \in Rooms, z \in 0..(MaxDepth - 1) :
            \E c \in Cells(rows[r]) :
                pop_entity(r, c[1], c[2], z) /\ UNCHANGED <<plotVars, actVars, worldVars>>
    \/ \E r \in Rooms, e \in Ents, d \in Steps :
            step_entity(r, e, d[1], d[2]) /\ UNCHANGED <<plotVars, actVars, worldVars>>
    \/ \E r \in Rooms, id \in IdArgs, d \in Steps :
            step_entity_id(r, id, d[1], d[2]) /\ UNCHANGED <<plotVars, actVars, worldVars>>

SpecWorld == InitW /\ [][NextW]_vars

-----------------------------------------------------------------------------
(* Properties of the Room grid. *)

\* The entities of a stack, bottom to top.
StackEntities(cell) == SelectSeq(cell, LAMBDA v : v # 0)

\* The slot an entity's tile coordinates name holds that entity.
AtOwnTile(grid, e) ==
    /\ Addressable(grid, tile[e].x, tile[e].y)
    /\ tile[e].z >= 0 /\ tile[e].z < Len(Cell(grid, tile[e].x, tile[e].y))
    /\ Cell(grid, tile[e].x, tile[e].y)[tile[e].z + 1] = e

\* The number of slots of all grids that hold e.
SlotsHolding(e) ==
    Cardinality(UNION {{<<r, q[2], q[3], q[4]>> :
                            q \in {p \in IterEntities(rows[r]) : p[1] = e}} :
                       r \in Rooms})

\* The destination of the last step_entity call, from the state it began in.
StepDestX == pre.tile[call.ent].x + call.dx
StepDestY == pre.tile[call.ent].y + call.dy

\* A cell that blocks movement: out of the jagged bounds, or a slot of its
\* stack holds an entity that is not walkable.
Blocked(grid, x, y) ==
    \/ ~Addressable(grid, x, y)
    \/ \E k \in DOMAIN Cell(grid, x, y) :
            Cell(grid, x, y)[k] # 0 /\ ~Walkable(Cell(grid, x, y)[k])

\* C1: after every add_entity call on an addressable cell, the slot named by
\* the entity's tile coordinates holds the entity, every entity that was in
\* the cell's stack is still in it, and those entities keep their order.
C1_AddNeverOverwrites ==
    call.op = "add_entity" =>
        LET before == Cell(pre.rows[call.room], call.x, call.y)
            after == Cell(rows[call.room], call.x, call.y)
        IN  /\ AtOwnTile(rows[call.room], call.ent)
            /\ tile[call.ent].x = call.x /\ tile[call.ent].y = call.y
            /\ StackEntities(before)
                 = SelectSeq(after, LAMBDA v : v # 0 /\ v # call.ent)

\* The part of C1 that the code keeps: no add_entity call removes or reorders
\* an entity of the cell, and a call that does not raise IndexError leaves the
\* entity in the slot its tile coordinates name.
C1_NoOverwrite ==
    call.op = "add_entity" =>
        LET before == Cell(pre.rows[call.room], call.x, call.y)
            after == Cell(rows[call.room], call.x, call.y)
        IN  /\ StackEntities(before)
                 = SelectSeq(after, LAMBDA v : v # 0 /\ v # call.ent)
            /\ call.fault # "IndexError" =>
                 /\ AtOwnTile(rows[call.room], call.ent)
                 /\ tile[call.ent].x = call.x /\ tile[call.ent].y = call.y

C3_StepMoves ==
    (/\ call.op = "step_entity" /\ call.ent # 0
     /\ ~Blocked(pre.rows[call.room], StepDestX, StepDestY)) =>
        LET e == call.ent
            was == pre.tile[e]
            dest == Cell(pre.rows[call.room], StepDestX, StepDestY)
        IN  /\ call.ret = "True"
            /\ Cell(rows[call.room], was.x, was.y)[was.z + 1] = 0
            /\ tile[e] = [x |-> StepDestX, y |-> StepDestY,
                          z |-> AddIndex(dest, {was.z})]
            /\ AtOwnTile(rows[call.room], e)
            /\ \A o \in Ents \ {e} : \A r \in Rooms :
                   {<<q[2], q[3]>> : q \in {p \in IterEntities(rows[r]) : p[1] = o}}
                 = {<<q[2], q[3]>> : q \in {p \in IterEntities(pre.rows[r]) : p[1] = o}}

\* C4: a step_entity call whose destination is not walkable returns False
\* and leaves every grid and every entity's tile coordinates as they were.
C4_StepFailsClean ==
    (/\ call.op = "step_entity" /\ call.ent # 0
     /\ Blocked(pre.rows[call.room], StepDestX, StepDestY)) =>
        /\ call.ret = "False" /\ call.fault = "none"
        /\ rows = pre.rows
        /\ tile = pre.tile

\* C4 witness: both kinds of failure have happened to entities of the grid:
\* here a step out of the jagged bounds.
C4_Witness ==
    /\ call.op = "step_entity" /\ call.ent # 0
    /\ call.ret = "False"
    /\ ~Addressable(pre.rows[call.room], StepDestX, StepDestY)
    /\ pre.rows # LevelRows

\* C5: is_walkable is false outside the jagged bounds, and inside them true
\* exactly when every non-empty slot of the stack holds a walkable entity.
C5_Walkable ==
    \A r \in Rooms : \A x \in -1..2, y \in -1..2 :
        is_walkable(rows[r], x, y) =
            IF y < 0 \/ y >= Len(rows[r]) THEN FALSE
            ELSE IF x < 0 \/ x >= Len(rows[r][y + 1]) THEN FALSE
            ELSE \A k \in 1..Len(rows[r][y + 1][x + 1]) :
                    rows[r][y + 1][x + 1][k] # 0 => Walkable(rows[r][y + 1][x + 1][k])

\* C5 witness: a step was refused by an entity in a stack that also has an
\* empty slot, while another cell with an empty slot and a walkable entity
\* is walkable.
C5_Witness ==
    /\ call.op = "step_entity" /\ call.ret = "False"
    /\ Addressable(rows[call.room], StepDestX, StepDestY)
    /\ \E k \in DOMAIN Cell(rows[call.room], StepDestX, StepDestY) :
            Cell(rows[call.room], StepDestX, StepDestY)[k] = 0
    /\ \E r \in Rooms : \E c \in Cells(rows[r]) :
            /\ is_walkable(rows[r], c[1], c[2])
            /\ \E k \in DOMAIN Cell(rows[r], c[1], c[2]) : Cell(rows[r], c[1], c[2])[k] = 0
            /\ \E k \in DOMAIN Cell(rows[r], c[1], c[2]) : Cell(rows[r], c[1], c[2])[k] = 2

-----------------------------------------------------------------------------
(* Properties of the plot. *)

Fired == {pcall.fired[i] : i \in DOMAIN pcall.fired}

\* The flag set an update call is to leave: the flags before it and its own.
MergedFlags == pcall.state0 \cup pcall.val.flags

\* C6: in an update call, every entry that was live when the call began and
\* whose key is a subset of the merged flags has its callback called and is
\* gone from the dict; an entry whose key is not satisfied is not called;
\* and no callback is ever called twice.
C6_SatisfiedTriggersFire ==
    /\ \A t \in Trigs : invoked[t] <= 1
    /\ IsUpdate(pcall) =>
         \A t \in pcall.triggers0 :
            IF Req(t) \subseteq MergedFlags
            THEN t \in Fired /\ t \notin gen.triggers
            ELSE t \notin Fired

\* The part of C6 the generator keeps: callbacks are called at most once, an
\* unsatisfied entry is never called, and an entry whose callback has
\* returned is gone from the dict.
C6_FiredOnceAndRemoved ==
    /\ \A t \in Trigs : invoked[t] <= 1
    /\ \A t \in Fired :
            /\ Req(t) \subseteq MergedFlags
            /\ t \notin gen.triggers \/ (Reenters(t) /\ pcall.fault = "ValueError")

\* C7: an entry merged into the dict by an update call is not called in that
\* call, and it is called in the next update call if its key is then a
\* subset of the flags.
C7_NestedWaitsOneCall ==
    IsUpdate(pcall) =>
        /\ Fired \cap MergedBy(pcall.fired) = {}
        /\ \A t \in pcall.merged0 : Req(t) \subseteq MergedFlags => t \in Fired

\* The part of C7 the generator keeps: no entry is called in the call that
\* merged it.
C7_NotInSameCall == Fired \cap MergedBy(pcall.fired) = {}

\* C8: an update call that ends with the dict empty, or is made on a Plot
\* started with no triggers, returns normally and has merged its flags; with
\* the dict empty from the start it calls nothing.
C8_EmptyForestIsQuiet ==
    /\ (pcall.op = "send" /\ IsUpdate(pcall) /\ gen.triggers = {}) =>
            /\ pcall.fault = "none"
            /\ pcall.val.flags \subseteq gen.state
            /\ pcall.triggers0 = {} => pcall.fired = <<>>
    /\ pcall.op = "Plot.update" =>
            /\ pcall.fault = "none"
            /\ pcall.val.flags \subseteq plotobj.state
    /\ pcall.op = "Plot.start" => pcall.fault = "none"

-----------------------------------------------------------------------------
(* Properties of the actions. *)

\* The one call invocation i is to make, on sub-action n.
OneCall(i, n) ==
    <<[sub |-> n, world |-> aargs[i].world, entity |-> aargs[i].entity]>>

\* C9: invocation i of an ActionIter over k >= 1 sub-actions calls exactly
\* one sub-action with the given (world, entity): number i while i <= k, the
\* last one afterwards.
C9_IterSticksOnLast ==
    act.kind = "Iter" =>
        \A i \in DOMAIN alog :
            alog[i] = OneCall(i, IF i <= act.k THEN i ELSE act.k)

\* C9 witness: an ActionIter over several sub-actions invoked past its end.
C9_Witness ==
    act.kind = "Iter" /\ act.k >= 2 /\ Len(alog) >= act.k + 2

\* C10: invocation i of an ActionLoop over k >= 1 sub-actions calls exactly
\* the sub-action at position ((i - 1) mod k) + 1.
C10_LoopWraps ==
    (act.kind = "Loop" /\ act.k >= 1) =>
        \A i \in DOMAIN alog : alog[i] = OneCall(i, ((i - 1) % act.k) + 1)

\* C10 witness: an ActionLoop over several sub-actions taken round twice
\* and into a third pass.
C10_Witness ==
    act.kind = "Loop" /\ act.k >= 2 /\ Len(alog) >= 2 * act.k + 1

\* C11: invocation i of an ActionCycle(n, a1..ak), k >= 1, calls exactly one
\* sub-action with the given (world, entity): the one at position
\* ((i - 1) mod k) + 1 while i <= n*k, and ak for every i > n*k.
C11_CycleRunsNTimes ==
    act.kind = "Cycle" =>
        \A i \in DOMAIN alog :
            alog[i] = OneCall(i, IF i <= act.n * act.k THEN ((i - 1) % act.k) + 1
                                 ELSE act.k)

\* C11 witness: a cycle of several sub-actions run through all its passes
\* and invoked once more.
C11_Witness ==
    act.kind = "Cycle" /\ act.k >= 2 /\ act.n >= 2 /\ Len(alog) > act.n * act.k

\* C12: every invocation of an ActionSequence calls each of its sub-actions
\* exactly once, in the order given, with the (world, entity) of that
\* invocation; after m invocations each sub-action has been called m times.
C12_SequenceCallsAll ==
    act.kind = "Sequence" =>
        /\ \A i \in DOMAIN alog :
                /\ Len(alog[i]) = act.k
                /\ \A j \in 1..act.k :
                        alog[i][j] = [sub |-> j, world |-> aargs[i].world,
                                      entity |-> aargs[i].entity]
        /\ \A j \in 1..act.k :
                Cardinality({ic \in (DOMAIN alog) \X (1..act.k) :
                                /\ ic[2] \in DOMAIN alog[ic[1]]
                                /\ alog[ic[1]][ic[2]].sub = j})
                    = Len(alog)

\* C12 witness: a sequence of several sub-actions invoked three times with
\* different arguments.
C12_Witness ==
    /\ act.kind = "Sequence" /\ act.k >= 2 /\ Len(alog) >= 3
    /\ aargs[1] # aargs[2]

\* C13: an invocation of ResetAction(a) on (world, entity) binds a to the
\* entity and then calls a exactly once with the same (world, entity), a
\* seeing itself bound; after the invocation the entity's action is a, or
\* what a bound in its turn.
C13_ResetBindsThenCalls ==
    act.kind = "Reset" =>
        /\ \A i \in DOMAIN alog :
                /\ alog[i][1] = [sub |-> act.target, world |-> aargs[i].world,
                                 entity |-> aargs[i].entity, seen |-> act.target]
                /\ Cardinality({j \in DOMAIN alog[i] : alog[i][j].sub = act.target}) = 1
        /\ Len(alog) > 0 =>
                action[aargs[Len(aargs)].entity] =
                    IF IsReset(act.target) THEN Wrapped(act.target) ELSE act.target

\* C13 witness: a ResetAction given a leaf has been invoked on two entities,
\* which both carry the leaf.
C13_Witness ==
    /\ act.kind = "Reset" /\ act.target = "leaf1" /\ Len(alog) >= 2
    /\ \E i, j \in DOMAIN aargs : aargs[i].entity # aargs[j].entity
    /\ \A i \in DOMAIN aargs : action[aargs[i].entity] = "leaf1"

-----------------------------------------------------------------------------
(* Properties of the portal index. *)

\* C19: after any sequence of add_portals calls, for every pair k -> v that
\* was added, portals[k] = v and portals[v] = k.
C19_PortalsTwoWay ==
    \A r \in Rooms : \A q \in added[r] :
        PGet(portals[r], q[1]) = q[2] /\ PGet(portals[r], q[2]) = q[1]

\* What add_portals keeps: right after a call whose mapping gives every
\* destination its own coordinate, the pairs of that call are indexed both
\* ways.
C19_LastCallTwoWay ==
    (/\ lastadd.room # ""
     /\ \A k1, k2 \in DOMAIN lastadd.arg :
            lastadd.arg[k1] = lastadd.arg[k2] => k1 = k2) =>
        \A k \in DOMAIN lastadd.arg :
            /\ PGet(portals[lastadd.room], k) = lastadd.arg[k]
            /\ PGet(portals[lastadd.room], lastadd.arg[k]) = k

-----------------------------------------------------------------------------
(* Properties of plot updates. *)

\* C20: after an update with a single flag the flag is in the flag set, and
\* after an update with a collection of flags every member of it is; this
\* holds for flags given to Plot.update and for flags forwarded by an
\* UpdatePlot action.
C20_UpdateMergesFlags ==
    pcall.op \in {"Plot.update", "UpdatePlot"} =>
        /\ pcall.fault = "none"
        /\ pcall.val.flags \subseteq plotobj.state

\* What the generator keeps: a single flag or a collection sent to a
\* generator that is suspended at its yield is merged into the flag set,
\* also when the pass over the triggers then raises.
C20_LiveGeneratorMerges ==
    (pcall.op = "send" /\ pcall.val.kind # "None" /\ pcall.status0 = "suspended") =>
        gen.state = pcall.state0 \cup pcall.val.flags

-----------------------------------------------------------------------------
(* Properties of the World. *)

\* The destination room a portal coordinate of room r leads to, "" if the
\* coordinate is no portal.
PortalDest(r, x, y) ==
    IF PGet(portals[r], CoordKey(x, y)) = <<>> THEN ""
    ELSE PGet(portals[r], CoordKey(x, y))[1]

\* Entity e stands in room d at the coordinate d pairs with room r.
AtPairedCoord(e, d, r) ==
    /\ InGrid(rows[d], e)
    /\ CoordKey(tile[e].x, tile[e].y) = PGet(portals[d], DestKey(r))

\* C14: a step_player call returns normally; if the destination of the step
\* in the focused Room is not walkable the focus and every grid are as
\* before; otherwise the player has moved, and if the new coordinate is no
\* portal of the focused Room the focus is as before, and if it is one the
\* player has left that Room, stands in the destination Room at its paired
\* coordinate, and the destination Room is the focus.
C14_StepPlayer ==
    call.op = "step_player" =>
        LET f == pre.focus
            nx == pre.tile[Player].x + call.dx
            ny == pre.tile[Player].y + call.dy
        IN  /\ call.fault = "none"
            /\ f \in Rooms
            /\ IF Blocked(pre.rows[f], nx, ny)
               THEN world.focus = f /\ rows = pre.rows
               ELSE IF PortalDest(f, nx, ny) = ""
               THEN /\ world.focus = f
                    /\ InGrid(rows[f], Player)
                    /\ tile[Player].x = nx /\ tile[Player].y = ny
               ELSE /\ world.focus = PortalDest(f, nx, ny)
                    /\ ~InGrid(rows[f], Player)
                    /\ AtPairedCoord(Player, PortalDest(f, nx, ny), f)

\* C15: a portal of an entity from room R at a portal coordinate of R
\* completes, takes the entity out of R's grid and leaves it in the
\* destination D at the coordinate D pairs with R, a portal that leads back
\* to R, with the entity's facing as before (its id and walkable are never
\* assigned after construction); so the portal back from there returns it
\* to R and to no other room.
C15_PortalRoundTrip ==
    (/\ call.op \in {"portal_entity", "portal_player"}
     /\ call.room \in Rooms
     /\ PortalDest(call.room, call.x, call.y) # "") =>
        LET d == PortalDest(call.room, call.x, call.y)
        IN  /\ call.fault = "none"
            /\ ~InGrid(rows[call.room], call.ent)
            /\ AtPairedCoord(call.ent, d, call.room)
            /\ PortalDest(d, tile[call.ent].x, tile[call.ent].y) = call.room
            /\ facing[call.ent] = pre.facing[call.ent]

\* C16: once a World has been constructed, exactly one Room has a batch and
\* that Room is the focus; set_focus with an empty id returns normally and
\* keeps the focus and the batches as they were.
C16_OneRoomLive ==
    world.ctor =>
        /\ Cardinality({r \in Rooms : batch[r] # "None"}) = 1
        /\ world.focus \in Rooms
        /\ batch[world.focus] # "None"
        /\ (call.op = "set_focus" /\ call.id = "") =>
                /\ call.fault = "none"
                /\ world.focus = pre.focus
                /\ batch = pre.batch

\* C17: an interact call returns normally, has invoked the action of each
\* entity in the stack of the cell in front of the player in the focused
\* Room that carries one, in stack order, and nothing else; the grids are as
\* before.
C17_InteractCallsFacingCell ==
    call.op = "interact" =>
        /\ call.fault = "none"
        /\ call.room \in Rooms
        /\ call.acts =
                IF Addressable(rows[call.room], call.x, call.y)
                THEN SelectSeq(Cell(rows[call.room], call.x, call.y),
                               LAMBDA v : v # 0 /\ action[v] # "None")
                ELSE <<>>
        /\ rows = pre.rows

-----------------------------------------------------------------------------
(* Properties of the id index. *)

\* C21: in every reachable state the uniques of each Room is the id index of
\* its grid: every entity of the grid whose id is set is mapped from its id,
\* and no entity that is absent from the grid is.
C21_UniquesMatchGrid ==
    \A r \in Rooms : uniques[r] = BuildUniques(rows[r])

\* What the code keeps: uniques is the index the constructor built, whatever
\* is placed or removed later.
C21_UniquesAreConstructed ==
    \A r \in Rooms : uniques[r] = BuildUniques(LevelRows[r])

-----------------------------------------------------------------------------
(* Properties of failed lookups. *)

\* C22: a step_entity call with an id that is not in the Room's uniques, and
\* a set_focus call with a room id that is neither empty nor registered,
\* raise a fault and leave the grids, every entity's facing and tile
\* coordinates, the focus and the batch of every Room as they were.
C22_LookupFailureAborts ==
    (\/ /\ call.op = "step_entity" /\ call.id # ""
        /\ Lookup(uniques[call.room], call.id) = 0
     \/ /\ call.op = "set_focus" /\ call.id \notin Rooms \cup {""}) =>
        /\ call.fault # "none"
        /\ rows = pre.rows /\ facing = pre.facing /\ tile = pre.tile
        /\ world.focus = pre.focus
        /\ batch = pre.batch

\* What the code keeps: both lookups raise, and all but the batch of the
\* focused Room is as before.
C22_LookupFailureRaises ==
    (\/ /\ call.op = "step_entity" /\ call.id # ""
        /\ Lookup(uniques[call.room], call.id) = 0
     \/ /\ call.op = "set_focus" /\ call.id \notin Rooms \cup {""}) =>
        /\ call.fault # "none"
        /\ rows = pre.rows /\ facing = pre.facing
        /\ world.focus = pre.focus
        /\ \A r \in Rooms \ {pre.focus} : batch[r] = pre.batch[r]

-----------------------------------------------------------------------------
(* Properties of action construction. *)

\* C23: no action object over zero sub-actions exists: every ActionIter,
\* ActionLoop, ActionCycle and ActionSequence that was constructed holds at
\* least one sub-action, so no invocation raises or makes no call.
C23_EmptyRejected ==
    act.kind \in {"Iter", "Loop", "Cycle", "Sequence"} =>
        /\ act.k >= 1
        /\ afault = "none"
        /\ \A i \in DOMAIN alog : alog[i] # <<>>

\* What the code keeps: ActionIter and ActionCycle reject an empty tuple at
\* construction.
C23_IterAndCycleReject ==
    act.kind \in {"Iter", "Cycle"} => act.k >= 1

-----------------------------------------------------------------------------
(* Properties of placement. *)

\* C24: every cell's stack has depth >= 1 in every reachable state, and
\* every add_entity call on an addressable cell, whatever its z hint,
\* completes without a fault and leaves the entity in the cell's stack,
\* which has not shrunk.
C24_PlacementSucceeds ==
    /\ \A r \in Rooms : \A c \in Cells(rows[r]) : Len(Cell(rows[r], c[1], c[2])) >= 1
    /\ call.op = "add_entity" =>
            LET before == Cell(pre.rows[call.room], call.x, call.y)
                after == Cell(rows[call.room], call.x, call.y)
            IN  /\ call.fault = "none"
                /\ \E k \in DOMAIN after : after[k] = call.ent
                /\ Len(after) >= Len(before)

\* What the code keeps: on a stack of depth >= 1 the entity is in the stack
\* when the call ends (with NameError), and no stack ever shrinks.
C24_PlacedOnNonEmptyStack ==
    call.op = "add_entity" =>
        LET before == Cell(pre.rows[call.room], call.x, call.y)
            after == Cell(rows[call.room], call.x, call.y)
        IN  /\ Len(before) >= 1 => \E k \in DOMAIN after : after[k] = call.ent
            /\ Len(after) >= Len(before)

\* C25: every entity stored in slot z of the stack at (x, y) of a Room has
\* the tile coordinates (x, y, z); an entity shifted up by an insertion
\* below it has its tile_z set to its new index.
C25_TileMatchesSlot ==
    \A r \in Rooms : \A q \in IterEntities(rows[r]) :
        tile[q[1]] = [x |-> q[2], y |-> q[3], z |-> q[4]]

\* What the code keeps: the entity a call of add_entity has placed carries
\* the coordinates of its slot, and every entity of a grid those of its cell.
C25_TileMatchesCell ==
    /\ \A r \in Rooms : \A q \in IterEntities(rows[r]) :
            tile[q[1]].x = q[2] /\ tile[q[1]].y = q[3]
    /\ (call.op = "add_entity" /\ call.fault # "IndexError") =>
            AtOwnTile(rows[call.room], call.ent)

-----------------------------------------------------------------------------
(* Properties of failed movement. *)

\* A step_entity or step_player call that reported failure: it reached an
\* entity and a Room, and the destination of the step was not walkable.
StepFailed ==
    /\ call.op \in {"step_entity", "step_player"}
    /\ call.ent # 0 /\ call.room \in Rooms
    /\ Blocked(pre.rows[call.room], StepDestX, StepDestY)

-----------------------------------------------------------------------------
(* Properties of the live forest. *)

\* C28: after an update call that returns, every nested entry of every
\* trigger fired in the call is in the live forest, and every trigger that
\* was live when the call began is still live or had its callback called in
\* the call; also when a nested entry has the required flag set of another
\* trigger.
C28_NestedEntriesSurvive ==
    (IsUpdate(pcall) /\ pcall.fault = "none") =>
        /\ MergedBy(pcall.fired) \subseteq gen.triggers
        /\ \A t \in pcall.triggers0 : t \in gen.triggers \/ t \in Fired

\* What the generator keeps: the claim holds for every call in which no
\* nested entry of a fired trigger has the required flag set of a trigger
\* that was live when the call began.
C28_SurviveWithoutCollision ==
    (/\ IsUpdate(pcall) /\ pcall.fault = "none"
     /\ \A n \in MergedBy(pcall.fired) : \A t \in pcall.triggers0 : Req(n) # Req(t)) =>
        /\ MergedBy(pcall.fired) \subseteq gen.triggers
        /\ \A t \in pcall.triggers0 : t \in gen.triggers \/ t \in Fired

\* C30: an update call in which a trigger's callback sends an update to the
\* same plot completes without a fault, has merged the flags of the inner
\* update as well as its own, and no callback has been called twice.
C30_ReentrantUpdateApplied ==
    (IsUpdate(pcall) /\ \E t \in Fired : Reenters(t)) =>
        /\ pcall.fault = "none"
        /\ MergedFlags \cup ReFlags \subseteq gen.state
        /\ \A t \in Trigs : invoked[t] <= 1

\* What the generator keeps: the outer call's own flags are merged, and no
\* callback is called twice, the generator being finished by the fault.
C30_ReentrantUpdateFaults ==
    (IsUpdate(pcall) /\ \E t \in Fired : Reenters(t)) =>
        /\ pcall.fault = "ValueError"
        /\ gen.status = "finished"
        /\ gen.state = MergedFlags
        /\ \A t \in Trigs : invoked[t] <= 1

-----------------------------------------------------------------------------
(* Properties of interact outside the grid. *)

\* C29: an interact call made with a Room focused and with the cell at
\* (player position + player facing) outside the jagged grid of that Room
\* raises no fault, invokes no action and changes no state.
C29_InteractOutsideIsQuiet ==
    (/\ call.op = "interact" /\ call.room \in Rooms
     /\ ~Addressable(pre.rows[call.room], call.x, call.y)) =>
        /\ call.fault = "none"
        /\ call.acts = <<>>
        /\ rows = pre.rows /\ tile = pre.tile /\ facing = pre.facing
        /\ world.focus = pre.focus /\ batch = pre.batch

\* What the code keeps: an interact call invokes no action and changes no
\* state.
C29_InteractChangesNothing ==
    call.op = "interact" =>
        /\ call.acts = <<>>
        /\ rows = pre.rows /\ tile = pre.tile /\ facing = pre.facing
        /\ world.focus = pre.focus /\ batch = pre.batch

====
